---- MODULE Spec2Model ----
(***************************************************************************)
(* Model of server/server.js of Navine-Compressor: the in-memory job       *)
(* registry, the two-pass encode orchestration of POST /api/start, the     *)
(* progress parser fed by ffmpeg's stderr, the progress and download       *)
(* routes, the periodic reaper, and the pure planning functions.           *)
(*                                                                         *)
(* JavaScript runs one callback at a time: every action below is one       *)
(* callback run to its next await (a route handler, a stderr data event,   *)
(* a process close event with the continuation it resumes, a timer).       *)
(***************************************************************************)
EXTENDS Integers, Sequences, FiniteSets, TLC

VARIABLES
  jobs,        \* the Map `jobs`: job id -> {} (no entry) or {record}
  pc,          \* per job id: where the POST /api/start handler is suspended
  lastPct,     \* per job id: `lastPct` of the progress parser now attached
  durationSec, \* per job id: `durationSec` of twoPassEncode (0 before the probe)
  inputFile,   \* per job id: does the uploaded input file exist
  outputFile,  \* per job id: the file at outputPath
  now,         \* Date.now() as read by the latest reaper tick (ms since start)
  spawned,     \* per job id: the external processes started so far, in order
  exits,       \* per job id: the exit codes seen so far, in order
  statusLog,   \* per job id: every status value written by setJob, in order
  thrown,      \* per job id: the message of the exception the handler caught
  termAt,      \* per job id: reading of `now` when the status became terminal
  reaped,      \* per job id: what the reaper saw when it removed the record
  ev,          \* what the callback that just ran let the outside see: the response
               \* of a query route, or how the unlink of an input file went
  planIn,      \* the arguments of one run of the planning functions
  planOut      \* {} before that run, {its results} after

vars == <<jobs, pc, lastPct, durationSec, inputFile, outputFile, now, spawned,
          exits, statusLog, thrown, termAt, reaped, ev, planIn, planOut>>

----------------------------------------------------------------------------
(* Bounds of the model. *)

\* Orchestration callbacks run only during the first MaxActiveTicks reaper periods.
MaxActiveTicks == 3

\* Requests to POST /api/start arrive only during the first MaxStartTicks reaper periods.
MaxStartTicks == 0

\* Largest hours field of a time=H:M:S.f marker.
MaxHH == 1

\* Number of steps of the target sizes, durations and audio bitrates given
\* to the planning functions.
MaxPlanStep == 4

JobIds == {"j1", "j2"}

\* Durations (seconds) the prober reports for an input.
Durations == {100, 7200}

\* Sizes (bytes) of a finished output file.
OutSizes == {0, 1572864}

\* Exit codes of an external process.
ExitCodes == {0, 1}

----------------------------------------------------------------------------
(* JavaScript values. *)

Missing == "missing"      \* the status reported for an id without a record

Max(a, b) == IF a >= b THEN a ELSE b
Min(a, b) == IF a <= b THEN a ELSE b

RECURSIVE GCD(_, _)
GCD(a, b) == IF b = 0 THEN a ELSE GCD(b, a % b)

\* A non-negative number n/d in lowest terms (percentages and megabytes are
\* not integers in the code).
Rat(n, d) == LET g == GCD(n, d) IN [n |-> n \div g, d |-> d \div g]
Num(k) == [n |-> k, d |-> 1]
RLeq(a, b) == a.n * b.d <= b.n * a.d

----------------------------------------------------------------------------
(* The job registry (server.js 31-47). A record is a function on Fields;  *)
(* a field holds {} when it is absent and {v} when it holds v.            *)

Fields == {"status", "percent", "message", "inputPath", "outputPath",
           "outputBytes", "error", "createdAt"}

EmptyRecord == [f \in Fields |-> {}]

\* { ...cur, ...patch }
Merge(cur, patch) ==
  [f \in Fields |-> IF f \in DOMAIN patch THEN {patch[f]} ELSE cur[f]]

Get(s) == CHOOSE x \in s : TRUE

\* setJob(jobId, patch): jobs.get(jobId) || {}, then jobs.set
SetJob(reg, id, patch) ==
  [reg EXCEPT ![id] =
     {Merge(IF reg[id] = {} THEN EmptyRecord ELSE Get(reg[id]), patch)}]

\* jobs.get(id) is defined
Has(reg, id) == reg[id] # {}
Rec(reg, id) == Get(reg[id])
StatusOf(reg, id) == IF Has(reg, id) /\ Rec(reg, id).status # {}
                     THEN Get(Rec(reg, id).status) ELSE Missing
Terminal(st) == st \in {"done", "error"}

----------------------------------------------------------------------------
(* try { ... } catch {} around a cleanup call (server.js 247, 285, 321).   *)

\* Variant: the exception of the cleanup call propagates.
SwallowNot(threw) == threw

\* Does the exception of a cleanup call wrapped in try/catch{} propagate?
Swallow(threw) == FALSE

\* fs.unlinkSync(path) throws when the file does not exist.
UnlinkThrows(exists) == ~exists

----------------------------------------------------------------------------
(* clamp and the progress parser (server.js 106, 152-170).                 *)

Clamp(n, a, b) == Max(a, Min(b, n))

RMax(a, b) == IF RLeq(b, a) THEN a ELSE b
RMin(a, b) == IF RLeq(a, b) THEN a ELSE b

\* clamp on the non-integer percentages
RClamp(x, a, b) == RMax(a, RMin(b, x))

\* A chunk of ffmpeg's stderr: with or without a time=H:M:S.f marker.
NoTimeChunk == [time |-> FALSE, hh |-> 0, mm |-> 0, ss |-> 0, cs |-> 0]
TimeChunks == { [time |-> TRUE, hh |-> h, mm |-> 1, ss |-> 1, cs |-> 50] :
                  h \in 0..MaxHH }
Chunks == {NoTimeChunk} \cup TimeChunks

\* chunk.match(timeRe)
Matches(c) == c.time

\* 100 * t, where t = hh*3600 + mm*60 + ss + cs/100
ElapsedCs(c) == (c.hh * 3600 + c.mm * 60 + c.ss) * 100 + c.cs

\* clamp((t / durationSec) * 100, 0, 100)
PctOf(c, dur) == RClamp(Rat(ElapsedCs(c), dur), Num(0), Num(100))

\* Variant: every parsed value is published.
PublishesAlways(pct, last) == TRUE

\* if (pct >= lastPct)
Publishes(pct, last) == RLeq(last, pct)

----------------------------------------------------------------------------
(* The reaper's clock (server.js 313-325).                                 *)

ReaperIntervalMs == 5 * 60 * 1000
RetentionMs == 30 * 60 * 1000

\* The last reaper tick of a run: late enough to purge every job that became
\* terminal while orchestration callbacks could still run.
LastTick == MaxActiveTicks + (RetentionMs \div ReaperIntervalMs) + 2

Active == now <= MaxActiveTicks * ReaperIntervalMs

----------------------------------------------------------------------------
(* The patches the orchestration writes (server.js 173, 198, 217, 238,     *)
(* 267, 282) and the messages of the exceptions it can throw.              *)

\* Variant: the record is created with outputBytes already filled in.
QueuedPatchZeroed(id) == [status |-> "queued", percent |-> Num(0), message |-> "Queued",
                          inputPath |-> id, outputPath |-> id, outputBytes |-> 0]

\* setJob(jobId, { status: "queued", ... })  (server.js 267)
QueuedPatch(id) == [status |-> "queued", percent |-> Num(0), message |-> "Queued",
                    inputPath |-> id, outputPath |-> id]
RunningPatch == [status |-> "running", percent |-> Num(1), message |-> "Analyzing"]
Pass1Patch == [message |-> "Pass 1/2", percent |-> Num(2)]
Pass2Patch == [message |-> "Pass 2/2", percent |-> Num(50)]
ProgressPatch(pct) == [percent |-> pct, message |-> "Encoding"]
DonePatch(size) == [status |-> "done", percent |-> Num(100), message |-> "Done",
                    outputBytes |-> size]

\* Variant: run resolves whatever the exit code.
ResolvedAlways(code) == TRUE

\* run's close handler: if (code === 0) resolve else reject  (server.js 62-65)
Resolved(code) == code = 0

\* Variant: the catch block records a fixed text.
ErrorTextGeneric(msg) == "Error"

\* e.message || String(e)
ErrorText(msg) == IF msg # "" THEN msg ELSE "Error"

ErrorPatch(msg) == [status |-> "error", percent |-> Num(0), message |-> "Error",
                    error |-> ErrorText(msg)]

RunRejected(cmd) == cmd \o " exited 1"               \* run, line 64
ProbeFailed == "ffprobe failed"                        \* line 91
ProbeUnparsed == "Failed to parse ffprobe output"      \* line 89
NoDuration == "Could not read duration."               \* line 177
StatFailed == "ENOENT: no such file or directory, stat"    \* fs.statSync, line 237
UnlinkFailed == "ENOENT: no such file or directory, unlink" \* fs.unlinkSync

\* What the prober prints: not JSON, or JSON with format.duration (0 when absent).
ProbeOutputs == {[parsed |-> FALSE, duration |-> 0]} \cup
                {[parsed |-> TRUE, duration |-> d] : d \in Durations \cup {0, -5}}

\* parseDurationSeconds
ParseDurationSeconds(probe) == IF probe.duration > 0 THEN probe.duration ELSE 0

\* The file at outputPath.
Absent == [st |-> "absent", size |-> 0]
Partial == [st |-> "partial", size |-> 0]
Complete(size) == [st |-> "complete", size |-> size]

NoEv == [op |-> "none", id |-> "", out |-> {}]
NoPlan == [targetMB |-> 0, durationSec |-> 0, audioKbps |-> 0, width |-> 0,
           height |-> 0, autoQuality |-> "on", codec |-> "h264"]

----------------------------------------------------------------------------
Init ==
  /\ jobs = [j \in JobIds |-> {}]
  /\ pc = [j \in JobIds |-> "idle"]
  /\ lastPct = [j \in JobIds |-> Num(0)]
  /\ durationSec = [j \in JobIds |-> 0]
  /\ inputFile = [j \in JobIds |-> FALSE]
  /\ outputFile = [j \in JobIds |-> Absent]
  /\ now = 0
  /\ spawned = [j \in JobIds |-> <<>>]
  /\ exits = [j \in JobIds |-> <<>>]
  /\ statusLog = [j \in JobIds |-> <<>>]
  /\ thrown = [j \in JobIds |-> {}]
  /\ termAt = [j \in JobIds |-> {}]
  /\ reaped = [j \in JobIds |-> {}]
  /\ ev = NoEv
  /\ planIn = NoPlan
  /\ planOut = {}

\* The planner run of PlanSpec takes no part in the server's callbacks.
PlanIdle == UNCHANGED <<planIn, planOut>>

\* Variant: the input file is unlinked at the end of the try block.
FinallyRunsOnSuccess(failed) == ~failed

\* Is the unlink of the input file reached: it sits in finally, so it is
\* reached after the try block and after the catch block alike.
FinallyRuns(failed) == TRUE

\* finally { try { fs.unlinkSync(inputPath); } catch {} }  (server.js 284-286).
\* The file may have vanished from the upload directory in the meantime; the
\* exception unlinkSync throws then ends in the empty catch.
Finally(j, failed) ==
  \E vanished \in BOOLEAN :
    /\ inputFile' = [inputFile EXCEPT ![j] = @ /\ ~vanished /\ ~FinallyRuns(failed)]
    /\ ev' = IF ~FinallyRuns(failed) THEN NoEv
             ELSE [op |-> "unlink", id |-> j,
                   out |-> {[threw |-> UnlinkThrows(inputFile[j] /\ ~vanished)]}]

\* Variant: the catch block records nothing.
CatchSilently(j, reg, slog, msg) ==
  /\ jobs' = reg
  /\ statusLog' = slog
  /\ thrown' = [thrown EXCEPT ![j] = {msg}]
  /\ Finally(j, TRUE)
  /\ pc' = [pc EXCEPT ![j] = "finished"]
  /\ lastPct' = [lastPct EXCEPT ![j] = Num(0)]
  /\ durationSec' = [durationSec EXCEPT ![j] = 0]
  /\ UNCHANGED termAt

\* catch(e) { setJob(error) } finally { unlink input }  (server.js 280-286).
\* The handler returns: the locals of twoPassEncode and its parser are gone.
Catch(j, reg, slog, msg) ==
  /\ jobs' = SetJob(reg, j, ErrorPatch(msg))
  /\ statusLog' = [slog EXCEPT ![j] = Append(@, "error")]
  /\ thrown' = [thrown EXCEPT ![j] = {msg}]
  /\ termAt' = [termAt EXCEPT ![j] = {now}]
  /\ Finally(j, TRUE)
  /\ pc' = [pc EXCEPT ![j] = "finished"]
  /\ lastPct' = [lastPct EXCEPT ![j] = Num(0)]
  /\ durationSec' = [durationSec EXCEPT ![j] = 0]

\* POST /api/start up to the first await: the record is created queued, then
\* twoPassEncode marks it running and ffprobeJson starts the prober.
Start(j, file) ==
  /\ PlanIdle
  /\ now <= MaxStartTicks * ReaperIntervalMs
  /\ pc[j] = "idle"
  /\ ev' = NoEv
  /\ IF ~file
     THEN UNCHANGED <<jobs, pc, lastPct, durationSec, inputFile, outputFile, now,
                      spawned, exits, statusLog, thrown, termAt, reaped>>
     ELSE /\ jobs' = SetJob(SetJob(jobs, j, QueuedPatch(j)), j, RunningPatch)
          /\ statusLog' = [statusLog EXCEPT ![j] = @ \o <<"queued", "running">>]
          /\ inputFile' = [inputFile EXCEPT ![j] = TRUE]
          /\ spawned' = [spawned EXCEPT ![j] = Append(@, "ffprobe")]
          /\ pc' = [pc EXCEPT ![j] = "probe1"]
          /\ UNCHANGED <<lastPct, durationSec, outputFile, now, exits, thrown,
                         termAt, reaped>>

\* close of the prober started by run("ffprobe") (server.js 77): on 0 the
\* prober is started a second time (line 81), otherwise run rejects.
Probe1Exit(j, code) ==
  /\ PlanIdle
  /\ Active
  /\ pc[j] = "probe1"
  /\ exits' = [exits EXCEPT ![j] = Append(@, code)]
  /\ IF Resolved(code)
     THEN /\ spawned' = [spawned EXCEPT ![j] = Append(@, "ffprobe")]
          /\ pc' = [pc EXCEPT ![j] = "probe2"]
          /\ ev' = NoEv
          /\ UNCHANGED <<jobs, statusLog, thrown, termAt, inputFile, lastPct,
                         durationSec>>
     ELSE /\ Catch(j, jobs, statusLog, RunRejected("ffprobe"))
          /\ UNCHANGED spawned
  /\ UNCHANGED <<outputFile, now, reaped>>

\* close of the second prober (server.js 86-93), then twoPassEncode 176-214.
Probe2Exit(j, code, out) ==
  /\ PlanIdle
  /\ Active
  /\ pc[j] = "probe2"
  /\ exits' = [exits EXCEPT ![j] = Append(@, code)]
  /\ IF code # 0
     THEN /\ Catch(j, jobs, statusLog, ProbeFailed)
          /\ UNCHANGED spawned
     ELSE IF ~out.parsed
     THEN /\ Catch(j, jobs, statusLog, ProbeUnparsed)
          /\ UNCHANGED spawned
     ELSE IF ParseDurationSeconds(out) = 0
     THEN /\ Catch(j, jobs, statusLog, NoDuration)
          /\ UNCHANGED spawned
     ELSE /\ durationSec' = [durationSec EXCEPT ![j] = ParseDurationSeconds(out)]
          /\ jobs' = SetJob(jobs, j, Pass1Patch)
          /\ lastPct' = [lastPct EXCEPT ![j] = Num(0)]
          /\ spawned' = [spawned EXCEPT ![j] = Append(@, "ffmpeg pass 1")]
          /\ pc' = [pc EXCEPT ![j] = "pass1"]
          /\ ev' = NoEv
          /\ UNCHANGED <<statusLog, thrown, termAt, inputFile>>
  /\ UNCHANGED <<outputFile, now, reaped>>

\* A stderr data event of the running transcoder: the closure returned by
\* makeProgressParser (server.js 156-169).
OnStdErr(j, c) ==
  /\ PlanIdle
  /\ Active
  /\ pc[j] \in {"pass1", "pass2"}
  /\ ev' = NoEv
  /\ IF Matches(c) /\ durationSec[j] # 0 /\ Publishes(PctOf(c, durationSec[j]), lastPct[j])
     THEN /\ lastPct' = [lastPct EXCEPT ![j] = PctOf(c, durationSec[j])]
          /\ jobs' = SetJob(jobs, j, ProgressPatch(PctOf(c, durationSec[j])))
     ELSE UNCHANGED <<lastPct, jobs>>
  /\ UNCHANGED <<pc, durationSec, inputFile, outputFile, now, spawned, exits,
                 statusLog, thrown, termAt, reaped>>

\* close of pass 1 (server.js 214-234): on 0 pass 2 starts with a fresh parser
\* and begins to write the output file.
Pass1Exit(j, code) ==
  /\ PlanIdle
  /\ Active
  /\ pc[j] = "pass1"
  /\ exits' = [exits EXCEPT ![j] = Append(@, code)]
  /\ IF Resolved(code)
     THEN /\ jobs' = SetJob(jobs, j, Pass2Patch)
          /\ lastPct' = [lastPct EXCEPT ![j] = Num(0)]
          /\ spawned' = [spawned EXCEPT ![j] = Append(@, "ffmpeg pass 2")]
          /\ outputFile' = [outputFile EXCEPT ![j] = Partial]
          /\ pc' = [pc EXCEPT ![j] = "pass2"]
          /\ ev' = NoEv
          /\ UNCHANGED <<statusLog, thrown, termAt, inputFile, durationSec>>
     ELSE /\ Catch(j, jobs, statusLog, RunRejected("ffmpeg"))
          /\ UNCHANGED <<spawned, outputFile>>
  /\ UNCHANGED <<now, reaped>>

\* close of pass 2 (server.js 234-248, 280-286). `file` is what pass 2 left at
\* outputPath when it exited 0; `logs` tells whether its statistics files exist.
Pass2Exit(j, code, file, logs) ==
  /\ PlanIdle
  /\ Active
  /\ pc[j] = "pass2"
  /\ exits' = [exits EXCEPT ![j] = Append(@, code)]
  /\ IF ~Resolved(code)
     THEN /\ Catch(j, jobs, statusLog, RunRejected("ffmpeg"))
          /\ UNCHANGED outputFile
     ELSE /\ outputFile' = [outputFile EXCEPT ![j] = file]
          /\ IF file.st # "complete"
             THEN Catch(j, jobs, statusLog, StatFailed)
             ELSE IF Swallow(UnlinkThrows(logs))
             THEN Catch(j, SetJob(jobs, j, DonePatch(file.size)),
                        [statusLog EXCEPT ![j] = Append(@, "done")], UnlinkFailed)
             ELSE /\ jobs' = SetJob(jobs, j, DonePatch(file.size))
                  /\ statusLog' = [statusLog EXCEPT ![j] = Append(@, "done")]
                  /\ termAt' = [termAt EXCEPT ![j] = {now}]
                  /\ Finally(j, FALSE)
                  /\ pc' = [pc EXCEPT ![j] = "finished"]
                  /\ lastPct' = [lastPct EXCEPT ![j] = Num(0)]
                  /\ durationSec' = [durationSec EXCEPT ![j] = 0]
                  /\ UNCHANGED thrown
  /\ UNCHANGED <<spawned, now, reaped>>

----------------------------------------------------------------------------
(* The reaper (server.js 313-325).                                         *)

\* Variant: the anchor is overwritten on every inspection.
StampAlways(rec, t) == [rec EXCEPT !.createdAt = {t}]

\* const created = job.createdAt || (job.createdAt = now)
Stamp(rec, t) == IF rec.createdAt = {} THEN [rec EXCEPT !.createdAt = {t}] ELSE rec

\* Variant: the age alone decides.
ExpiredAnyStatus(rec, t) == t - Get(Stamp(rec, t).createdAt) > RetentionMs

\* (job.status === "done" || job.status === "error") && ageMs > 30*60*1000
Expired(rec, t) ==
  /\ rec.status # {} /\ Terminal(Get(rec.status))
  /\ t - Get(Stamp(rec, t).createdAt) > RetentionMs

Purged(reg, j, t) == Has(reg, j) /\ Expired(Rec(reg, j), t)

\* One timer tick: every record is stamped, every expired one is removed
\* together with the file at its outputPath.
Reaper ==
  /\ PlanIdle
  /\ now < LastTick * ReaperIntervalMs
  /\ now' = now + ReaperIntervalMs
  /\ ev' = NoEv
  /\ jobs' = [j \in JobIds |->
               IF ~Has(jobs, j) \/ Purged(jobs, j, now') THEN {}
               ELSE {Stamp(Rec(jobs, j), now')}]
  /\ outputFile' = [j \in JobIds |->
               IF Purged(jobs, j, now') /\ Rec(jobs, j).outputPath # {}
               THEN Absent ELSE outputFile[j]]
  /\ reaped' = [j \in JobIds |->
               IF Purged(jobs, j, now')
               THEN {[at |-> now', status |-> StatusOf(jobs, j), pc |-> pc[j]]}
               ELSE reaped[j]]
  /\ UNCHANGED <<pc, lastPct, durationSec, inputFile, spawned, exits, statusLog,
                 thrown, termAt>>

----------------------------------------------------------------------------
(* The query routes (server.js 289-310).                                   *)

BytesPerMB == 1024 * 1024

\* Variant: a record is created for an unknown id.
ProgressLookupCreates(reg, id) == IF Has(reg, id) THEN reg ELSE SetJob(reg, id, [percent |-> Num(0)])

\* GET /api/progress/:jobId reads the registry with jobs.get
ProgressLookup(reg, id) == reg

\* The JSON body of GET /api/progress/:jobId
ProgressResponse(reg, id) ==
  IF ~Has(reg, id)
  THEN [code |-> 404, status |-> {Missing}, percent |-> {}, message |-> {},
        error |-> {}, outputMB |-> {}]
  ELSE LET job == Rec(reg, id) IN
       [code |-> 200,
        status |-> job.status,
        percent |-> IF job.percent = {} THEN {Num(0)} ELSE job.percent,
        message |-> IF job.message = {} THEN {""} ELSE job.message,
        error |-> job.error,
        outputMB |-> IF job.outputBytes # {} /\ Get(job.outputBytes) # 0
                     THEN {Rat(Get(job.outputBytes), BytesPerMB)} ELSE {}]

\* Variant: the file is served whenever the record exists.
DownloadResponseAnyStatus(reg, id) ==
  IF ~Has(reg, id) THEN [code |-> 404, file |-> {}]
  ELSE [code |-> 200, file |-> Rec(reg, id).outputPath]

\* GET /api/download/:jobId
DownloadResponse(reg, id) ==
  IF ~Has(reg, id) THEN [code |-> 404, file |-> {}]
  ELSE IF Rec(reg, id).status # {"done"} THEN [code |-> 409, file |-> {}]
  ELSE [code |-> 200, file |-> Rec(reg, id).outputPath]

Progress(j) ==
  /\ PlanIdle
  /\ ev' = [op |-> "progress", id |-> j, out |-> {ProgressResponse(jobs, j)}]
  /\ jobs' = ProgressLookup(jobs, j)
  /\ UNCHANGED <<pc, lastPct, durationSec, inputFile, outputFile, now, spawned,
                 exits, statusLog, thrown, termAt, reaped>>

Download(j) ==
  /\ PlanIdle
  /\ ev' = [op |-> "download", id |-> j, out |-> {DownloadResponse(jobs, j)}]
  /\ UNCHANGED <<jobs, pc, lastPct, durationSec, inputFile, outputFile, now,
                 spawned, exits, statusLog, thrown, termAt, reaped>>

----------------------------------------------------------------------------
Next ==
  \/ \E j \in JobIds, file \in BOOLEAN : Start(j, file)
  \/ \E j \in JobIds, code \in ExitCodes : Probe1Exit(j, code)
  \/ \E j \in JobIds, code \in ExitCodes, out \in ProbeOutputs : Probe2Exit(j, code, out)
  \/ \E j \in JobIds, c \in Chunks : OnStdErr(j, c)
  \/ \E j \in JobIds, code \in ExitCodes : Pass1Exit(j, code)
  \/ \E j \in JobIds, code \in ExitCodes, logs \in BOOLEAN,
        file \in {Absent} \cup {Complete(s) : s \in OutSizes} : Pass2Exit(j, code, file, logs)
  \/ Reaper
  \/ \E j \in JobIds : Progress(j)
  \/ \E j \in JobIds : Download(j)

Spec == Init /\ [][Next]_vars

\* setInterval fires the reaper for as long as the process runs.
FairSpec == Spec /\ WF_vars(Reaper)

----------------------------------------------------------------------------
(* The bitrate planner (server.js 133-146) as a run of its own: the        *)
(* arguments are drawn in the initial state, ComputeBitrates is applied    *)
(* once.                                                                   *)
(*                                                                         *)
(* Bit counts are held in units of 8 bits: for integer arguments both      *)
(* targetMB*1024*1024*8 and audioKbps*1000*durationSec are multiples of 8, *)
(* and the default target of 499 MB then fits a 32-bit integer. The 70%    *)
(* share is not an integer; a count is a record [w, t] that stands for     *)
(* w + t/10 units.                                                         *)

Whole(n) == [w |-> n, t |-> 0]
DLeq(a, b) == a.w < b.w \/ (a.w = b.w /\ a.t <= b.t)
DMax(a, b) == IF DLeq(b, a) THEN a ELSE b

\* x * 0.70
Times070(x) == [w |-> (x \div 10) * 7 + ((x % 10) * 7) \div 10,
                t |-> ((x % 10) * 7) % 10]

\* targetMB * 1024 * 1024 * 8
TotalBits(in) == in.targetMB * 1024 * 1024

\* audioKbps * 1000 * durationSec
AudioBits(in) == in.audioKbps * 125 * in.durationSec

\* Variant: the audio share is subtracted without the 70% floor.
VideoBitsNoFloor(in) == Whole(TotalBits(in) - AudioBits(in))

\* Math.max(totalBits - audioBits, totalBits * 0.70)
VideoBits(in) == DMax(Whole(TotalBits(in) - AudioBits(in)), Times070(TotalBits(in)))

\* Variant: the rate is rounded to the nearest kbps instead of down.
FloorKbpsNearest(bits, dur) == (bits.w + (125 * dur) \div 2) \div (125 * dur)

\* Math.floor(videoBps / 1000), where videoBps = videoBits / durationSec:
\* 8 * (w + t/10) / durationSec / 1000, rounded down
FloorKbps(bits, dur) == bits.w \div (125 * dur)

\* clamp(Math.floor(videoBps / 1000), 200, 50000)
VideoKbps(in) == Clamp(FloorKbps(VideoBits(in), in.durationSec), 200, 50000)

\* computeBitrates({ targetMB, durationSec, audioKbps })
ComputeBitrates(in) == [videoBits |-> VideoBits(in), videoKbps |-> VideoKbps(in)]

(* The quality planner (server.js 112-127) and the transcoder arguments    *)
(* twoPassEncode builds from both planners (server.js 183-232).            *)

\* Variant: the tier boundaries belong to the faster tier.
PresetForInclusive(dur) ==
  IF dur >= 30 * 60 THEN "veryfast"
  ELSE IF dur >= 15 * 60 THEN "fast"
  ELSE IF dur >= 7 * 60 THEN "medium"
  ELSE "slow"

\* let preset = "slow"; if (durationSec > 30*60) ... else if ... (lines 116-119)
PresetFor(dur) ==
  IF dur > 30 * 60 THEN "veryfast"
  ELSE IF dur > 15 * 60 THEN "fast"
  ELSE IF dur > 7 * 60 THEN "medium"
  ELSE "slow"

\* if (maxDim >= 3840) scaleFilter = "scale=1920:-2", else null (lines 113, 122-123)
ScaleFilterFor(width, height) ==
  IF Max(width, height) >= 3840 THEN {"scale=1920:-2"} ELSE {}

\* autoSettings({ width, height, durationSec })
AutoSettings(in) == [preset |-> PresetFor(in.durationSec),
                     scaleFilter |-> ScaleFilterFor(in.width, in.height)]

\* Variant: the scale filter is passed whatever autoQuality says.
UseScaleAlways(autoQuality, scaleFilter) ==
  IF scaleFilter # {} THEN <<"-vf", Get(scaleFilter)>> ELSE <<>>

\* (autoQuality === "on" && scaleFilter) ? ["-vf", scaleFilter] : []
UseScale(autoQuality, scaleFilter) ==
  IF autoQuality = "on" /\ scaleFilter # {} THEN <<"-vf", Get(scaleFilter)>> ELSE <<>>

\* (autoQuality === "on") ? preset : "medium"
ChosenPreset(autoQuality, preset) == IF autoQuality = "on" THEN preset ELSE "medium"

\* (codec === "h265") ? "libx265" : "libx264"
VCodec(codec) == IF codec = "h265" THEN "libx265" ELSE "libx264"

\* `${videoKbps}k`
KbpsArg(kbps) == ToString(kbps) \o "k"

\* p1Args
Pass1Args(in) ==
  <<"-y", "-i", "inputPath">>
    \o UseScale(in.autoQuality, AutoSettings(in).scaleFilter)
    \o <<"-c:v", VCodec(in.codec), "-b:v", KbpsArg(VideoKbps(in)),
         "-preset", ChosenPreset(in.autoQuality, AutoSettings(in).preset),
         "-pass", "1", "-passlogfile", "passlog", "-an", "-f", "mp4", "/dev/null">>

\* p2Args
Pass2Args(in) ==
  <<"-y", "-i", "inputPath">>
    \o UseScale(in.autoQuality, AutoSettings(in).scaleFilter)
    \o <<"-c:v", VCodec(in.codec), "-b:v", KbpsArg(VideoKbps(in)),
         "-preset", ChosenPreset(in.autoQuality, AutoSettings(in).preset),
         "-pass", "2", "-passlogfile", "passlog", "-c:a", "aac",
         "-b:a", KbpsArg(in.audioKbps), "-movflags", "+faststart", "outputPath">>

\* What twoPassEncode derives between the probe and the first pass.
EncodePlan(in) ==
  [videoBits |-> VideoBits(in), videoKbps |-> ComputeBitrates(in).videoKbps,
   preset |-> AutoSettings(in).preset, scaleFilter |-> AutoSettings(in).scaleFilter,
   p1Args |-> Pass1Args(in), p2Args |-> Pass2Args(in)]

TargetMBs == {4 ^ k : k \in 0..MaxPlanStep} \cup {499}
PlanDurations == {1, 7 * 60, 7 * 60 + 1, 15 * 60, 15 * 60 + 1, 30 * 60 + 1}
                   \cup {600 * k : k \in 1..MaxPlanStep}
AudioRates == {64 * k : k \in 1..MaxPlanStep}
Widths == {0, 1920, 3839, 3840}
Heights == {0, 1080, 4320}

PlanInit ==
  /\ jobs = [j \in JobIds |-> {}]
  /\ pc = [j \in JobIds |-> "idle"]
  /\ lastPct = [j \in JobIds |-> Num(0)]
  /\ durationSec = [j \in JobIds |-> 0]
  /\ inputFile = [j \in JobIds |-> FALSE]
  /\ outputFile = [j \in JobIds |-> Absent]
  /\ now = 0
  /\ spawned = [j \in JobIds |-> <<>>]
  /\ exits = [j \in JobIds |-> <<>>]
  /\ statusLog = [j \in JobIds |-> <<>>]
  /\ thrown = [j \in JobIds |-> {}]
  /\ termAt = [j \in JobIds |-> {}]
  /\ reaped = [j \in JobIds |-> {}]
  /\ ev = NoEv
  /\ planIn \in [targetMB : TargetMBs, durationSec : PlanDurations,
                  audioKbps : AudioRates, width : Widths, height : Heights,
                  autoQuality : {"on", "off"}, codec : {"h264", "h265"}]
  /\ planOut = {}

Plan ==
  /\ planOut = {}
  /\ planOut' = {EncodePlan(planIn)}
  /\ UNCHANGED <<jobs, pc, lastPct, durationSec, inputFile, outputFile, now, spawned,
                 exits, statusLog, thrown, termAt, reaped, ev, planIn>>

PlanNext == Plan

PlanSpec == PlanInit /\ [][PlanNext]_vars

----------------------------------------------------------------------------
\* 10 * (w + t/10) >= 7 * total, computed without the large products
AtLeast70Pct(bits, total) ==
  LET diff == bits.w - 7 * (total \div 10)
  IN diff >= 7 \/ (diff >= 0 /\ 10 * diff + bits.t >= 7 * (total % 10))

(* C10: for positive targetMB, durationSec and audioKbps, computeBitrates  *)
(* returns 200 <= videoKbps <= 50000, and the video bit budget it derives  *)
(* is at least 70% of the total bit budget targetMB * 2^20 * 8.            *)
BitrateWithinClampAndFloor ==
  \A r \in planOut :
    /\ 200 <= r.videoKbps /\ r.videoKbps <= 50000
    /\ AtLeast70Pct(r.videoBits, TotalBits(planIn))

\* The floor binds (audio above 30% of the budget) and the lower clamp applies.
BitrateFloorBinds ==
  \E r \in planOut :
    /\ 10 * AudioBits(planIn) > 3 * TotalBits(planIn)
    /\ r.videoKbps = 200
    /\ FloorKbps(r.videoBits, planIn.durationSec) < 200

----------------------------------------------------------------------------
(* Shorthands of the claims.                                               *)

IsPrefix(s, t) == Len(s) <= Len(t) /\ \A i \in 1..Len(s) : s[i] = t[i]
PercentOf(reg, j) == Get(Rec(reg, j).percent)
InFlight(j) == pc[j] \in {"probe1", "probe2", "pass1", "pass2"}
Processes == <<"ffprobe", "ffprobe", "ffmpeg pass 1", "ffmpeg pass 2">>

(* C1: the status of a job only changes along queued -> running -> done or *)
(* queued -> running -> error; nothing is written after done or error, and *)
(* a record that exists shows the status written last; a record that was   *)
(* created is absent only when the reaper removed it.                      *)
StatusOrder ==
  \A j \in JobIds :
    /\ \/ IsPrefix(statusLog[j], <<"queued", "running", "done">>)
       \/ IsPrefix(statusLog[j], <<"queued", "running", "error">>)
    /\ Has(jobs, j) =>
         /\ statusLog[j] # <<>>
         /\ Rec(jobs, j).status = {statusLog[j][Len(statusLog[j])]}
    /\ (~Has(jobs, j) /\ statusLog[j] # <<>>) => reaped[j] # {}

\* One job is done and the other failed.
StatusBothEnds ==
  /\ statusLog["j1"] = <<"queued", "running", "done">>
  /\ statusLog["j2"] = <<"queued", "running", "error">>
  /\ Has(jobs, "j1") /\ Has(jobs, "j2")

(* C2 (as claimed): a job that has been done or error for less than the    *)
(* 30-minute window is never removed by the reaper. termAt is the reading  *)
(* of the clock at the last tick before the job became terminal, so        *)
(* at - termAt is an upper limit of the time the job has been terminal.    *)
RetainedForWindow ==
  \A j \in JobIds :
    \A r \in reaped[j] : \A t \in termAt[j] : r.at - t >= RetentionMs

(* C3 (as claimed): while a job is running, the percent of its record      *)
(* never decreases from one update to the next.                            *)
PercentNeverDecreases ==
  [][\A j \in JobIds :
       (StatusOf(jobs, j) = "running" /\ StatusOf(jobs, j)' = "running")
         => RLeq(PercentOf(jobs, j), PercentOf(jobs, j)')]_vars

(* C4: with the reaper timer firing, every job that is done or error is    *)
(* eventually removed from the registry; once removed, its output file is  *)
(* gone, a progress query answers missing and a download answers 404.      *)
TerminalJobsPurged ==
  /\ \A j \in JobIds :
       (Has(jobs, j) /\ Terminal(StatusOf(jobs, j)))
         ~> (~Has(jobs, j) /\ reaped[j] # {} /\ outputFile[j] = Absent)
  /\ [](\A j \in JobIds :
          reaped[j] # {} =>
            /\ ~Has(jobs, j) /\ outputFile[j] = Absent
            /\ (ev.op = "progress" /\ ev.id = j) =>
                 \A r \in ev.out : r.code = 404 /\ r.status = {Missing}
            /\ (ev.op = "download" /\ ev.id = j) =>
                 \A r \in ev.out : r.code = 404 /\ r.file = {})

\* A done job with an output file was purged, and a progress query for it ran.
PurgedAndQueried ==
  \E j \in JobIds :
    /\ \E r \in reaped[j] : r.status = "done"
    /\ ev.op = "progress" /\ ev.id = j

(* C5: a download serves the output file only when the record exists with  *)
(* status done; for a record that is queued, running or error it answers   *)
(* 409 and serves nothing, also while pass 2 is writing the output file;   *)
(* without a record it answers 404.                                        *)
DownloadOnlyWhenDone ==
  (ev.op = "download") =>
    \A r \in ev.out :
      /\ r.code = 200 <=> (Has(jobs, ev.id) /\ StatusOf(jobs, ev.id) = "done")
      /\ r.code = 200 => (r.file = {ev.id} /\ outputFile[ev.id].st = "complete")
      /\ r.code # 200 => r.file = {}
      /\ r.code = 409 <=>
           (Has(jobs, ev.id) /\ StatusOf(jobs, ev.id) \in {"queued", "running", "error"})
      /\ r.code = 404 <=> ~Has(jobs, ev.id)
      /\ outputFile[ev.id].st = "partial" => r.code = 409

\* A download was asked for while pass 2 had written part of the output.
DownloadDuringPass2 ==
  /\ ev.op = "download"
  /\ pc[ev.id] = "pass2"
  /\ outputFile[ev.id] = Partial
  /\ \A r \in ev.out : r.code = 409

(* C6: the reaper removes the record and deletes the output file of no job *)
(* that is queued or running, and no patch of the orchestration lands on   *)
(* an id whose record the reaper removed: a job in flight has its whole    *)
(* record, and a removed record stays removed.                             *)
ReaperLeavesRunningJobs ==
  \A j \in JobIds :
    /\ \A r \in reaped[j] : Terminal(r.status) /\ r.pc = "finished" /\ ~Has(jobs, j)
    /\ InFlight(j) =>
         /\ Has(jobs, j) /\ reaped[j] = {}
         /\ StatusOf(jobs, j) = "running"
         /\ Rec(jobs, j).inputPath = {j} /\ Rec(jobs, j).outputPath = {j}
    /\ pc[j] = "pass2" => outputFile[j] = Partial

\* A job is still in pass 2 after more than the retention window of reaper
\* ticks, while the other job has been purged.
RunningPastWindow ==
  \E j, k \in JobIds :
    /\ pc[j] = "pass2" /\ Has(jobs, j)
    /\ \A t \in Rec(jobs, j).createdAt : now - t > RetentionMs
    /\ Rec(jobs, j).createdAt # {}
    /\ reaped[k] # {}

(* C7: when a step of the orchestration fails, the job goes from running   *)
(* to error with the failure's message in its error field, no further      *)
(* process is started for it and no step is run again.                     *)
FailureIsFinal ==
  \A j \in JobIds :
    /\ \A m \in thrown[j] :
         /\ statusLog[j] = <<"queued", "running", "error">>
         /\ pc[j] = "finished"
         /\ Has(jobs, j) => (Rec(jobs, j).error = {m} /\ StatusOf(jobs, j) = "error")
         /\ Len(spawned[j]) = Len(exits[j])
    /\ IsPrefix(spawned[j], Processes)
    /\ \A i \in 1..Len(exits[j]) :
         exits[j][i] # 0 => (i = Len(exits[j]) /\ i = Len(spawned[j]) /\ thrown[j] # {})
    /\ (pc[j] = "finished" /\ thrown[j] = {}) =>
         /\ statusLog[j] = <<"queued", "running", "done">>
         /\ Len(exits[j]) = Len(Processes)

\* Pass 1 failed: three processes were started, the third exited non-zero.
Pass1FailureRecorded ==
  \E j \in JobIds :
    /\ thrown[j] = {RunRejected("ffmpeg")}
    /\ exits[j] = <<0, 0, 1>>
    /\ Has(jobs, j) /\ Rec(jobs, j).error = {"ffmpeg exited 1"}

(* C8: pass 2 is started only after pass 1 has exited with code 0, and the *)
(* job is set to done only after pass 2 has exited with code 0.            *)
PassOrder ==
  \A j \in JobIds :
    /\ \A i \in 1..Len(spawned[j]) :
         spawned[j][i] = "ffmpeg pass 2" =>
           /\ i = 4 /\ spawned[j][3] = "ffmpeg pass 1"
           /\ Len(exits[j]) >= 3 /\ exits[j][3] = 0
    /\ pc[j] = "pass1" => (Len(spawned[j]) = 3 /\ Len(exits[j]) = 2)
    /\ pc[j] = "pass2" => (Len(spawned[j]) = 4 /\ Len(exits[j]) = 3)
    /\ (\E i \in 1..Len(statusLog[j]) : statusLog[j][i] = "done") =>
         (Len(exits[j]) = 4 /\ exits[j][4] = 0 /\ spawned[j] = Processes)

\* A job is done after both passes exited 0, another stopped at a failed pass 1.
BothPassesRan ==
  \E j, k \in JobIds :
    /\ StatusOf(jobs, j) = "done" /\ exits[j] = <<0, 0, 0, 0>>
    /\ StatusOf(jobs, k) = "error" /\ exits[k] = <<0, 0, 1>>
    /\ spawned[k] = <<"ffprobe", "ffprobe", "ffmpeg pass 1">>

(* C9: the values one progress parser publishes never decrease and lie in  *)
(* [0,100]; a chunk without a time=H:M:S.f marker publishes nothing and    *)
(* leaves the parser's last value and the record as they were.             *)
ParserMonotone ==
  [][\A j \in JobIds : \A c \in Chunks :
       OnStdErr(j, c) =>
         /\ RLeq(lastPct[j], lastPct'[j])
         /\ RLeq(Num(0), lastPct'[j]) /\ RLeq(lastPct'[j], Num(100))
         /\ jobs' # jobs =>
              /\ Matches(c)
              /\ Rec(jobs', j).percent = {lastPct'[j]}
              /\ lastPct'[j] = PctOf(c, durationSec[j])
         /\ lastPct'[j] # lastPct[j] => jobs' # jobs
         /\ ~Matches(c) => (jobs' = jobs /\ lastPct' = lastPct)]_vars

\* A parser has published a value that the clamp cut to 100.
ParserPublishedClamped ==
  \E j \in JobIds :
    /\ pc[j] = "pass1"
    /\ lastPct[j] = Num(100)
    /\ Rec(jobs, j).percent = {Num(100)}
    /\ ElapsedCs([time |-> TRUE, hh |-> 1, mm |-> 1, ss |-> 1, cs |-> 50]) > 100 * durationSec[j]

(* The worked example of the bitrate planner.                              *)
WorkedExample ==
  /\ planIn.targetMB = 499 /\ planIn.durationSec = 600 /\ planIn.audioKbps = 128

\* The subtraction wins over the 70% floor and the clamp leaves the rate alone.
WorkedExampleShape(r) ==
  /\ r.videoBits = Whole(TotalBits(planIn) - AudioBits(planIn))
  /\ ~DLeq(r.videoBits, Times070(TotalBits(planIn)))
  /\ r.videoKbps = FloorKbps(r.videoBits, planIn.durationSec)
  /\ 200 < r.videoKbps /\ r.videoKbps < 50000

(* C11 (as claimed): for targetMB 499, durationSec 600 and audioKbps 128   *)
(* the video budget is total minus audio (the floor does not bind), the    *)
(* rate lies inside the clamp unmodified, and the video bitrate is 6852.   *)
WorkedExampleIs6852 ==
  \A r \in planOut :
    WorkedExample => (WorkedExampleShape(r) /\ r.videoKbps = 6852)

(* C11: for targetMB 499, durationSec 600 and audioKbps 128 the video      *)
(* budget is total minus audio (the floor does not bind), the rate lies    *)
(* inside the clamp unmodified, and the video bitrate is 6848 kbps, the    *)
(* same value in the arguments of both passes.                             *)
WorkedExampleIs6848 ==
  \A r \in planOut :
    WorkedExample =>
      /\ WorkedExampleShape(r) /\ r.videoKbps = 6848
      /\ \E i \in 1..(Len(r.p1Args) - 1) : r.p1Args[i] = "-b:v" /\ r.p1Args[i + 1] = "6848k"
      /\ \E i \in 1..(Len(r.p2Args) - 1) : r.p2Args[i] = "-b:v" /\ r.p2Args[i + 1] = "6848k"

\* The planner has run on the worked example.
WorkedExamplePlanned ==
  WorkedExample /\ planOut # {} /\ planIn.autoQuality = "on" /\ planIn.width = 3840

\* The argument that follows flag in args ({} when the flag is not passed).
ArgOf(args, flag) ==
  {args[i + 1] : i \in {k \in 1..(Len(args) - 1) : args[k] = flag}}

OtherQuality(in) ==
  [in EXCEPT !.autoQuality = IF in.autoQuality = "on" THEN "off" ELSE "on"]

(* C12: the scale filter is among the arguments of both passes exactly     *)
(* when max(width, height) >= 3840 and autoQuality is on; with autoQuality *)
(* off the preset is medium and no scale filter is passed; the video       *)
(* bitrate passed to the transcoder is the same with autoQuality on or off.*)
ScaleOnlyWhenAutoAndHuge ==
  \A r \in planOut :
    LET huge == Max(planIn.width, planIn.height) >= 3840
        on == planIn.autoQuality = "on"
    IN /\ ArgOf(r.p1Args, "-vf") = (IF huge /\ on THEN {"scale=1920:-2"} ELSE {})
       /\ ArgOf(r.p2Args, "-vf") = (IF huge /\ on THEN {"scale=1920:-2"} ELSE {})
       /\ ~on => /\ ArgOf(r.p1Args, "-preset") = {"medium"}
                 /\ ArgOf(r.p2Args, "-preset") = {"medium"}
       /\ ArgOf(r.p1Args, "-b:v") = ArgOf(Pass1Args(OtherQuality(planIn)), "-b:v")
       /\ ArgOf(r.p2Args, "-b:v") = ArgOf(Pass2Args(OtherQuality(planIn)), "-b:v")
       /\ ArgOf(r.p1Args, "-b:v") = {KbpsArg(r.videoKbps)}
       /\ ArgOf(r.p2Args, "-b:v") = {KbpsArg(r.videoKbps)}

\* A long 4K video planned with autoQuality off: autoSettings proposes the
\* scale filter and veryfast, the arguments carry neither.
HugeVideoPlannedWithAutoOff ==
  \E r \in planOut :
    /\ planIn.autoQuality = "off" /\ planIn.width = 3840
    /\ r.scaleFilter = {"scale=1920:-2"} /\ r.preset = "veryfast"
    /\ ArgOf(r.p2Args, "-vf") = {}

\* Encoder presets ordered from slowest to fastest.
Speed(preset) ==
  CASE preset = "slow" -> 0 [] preset = "medium" -> 1
    [] preset = "fast" -> 2 [] preset = "veryfast" -> 3

(* C13: with autoQuality on the preset passed to both passes is veryfast   *)
(* for a duration above 30 minutes, fast above 15 and up to 30 minutes,    *)
(* medium above 7 and up to 15 minutes, slow up to 7 minutes; a longer     *)
(* duration never gets a slower preset, and width and height play no part. *)
PresetTiers ==
  \A r \in planOut :
    LET d == planIn.durationSec
        tier == IF d > 30 * 60 THEN "veryfast"
                ELSE IF 15 * 60 < d /\ d <= 30 * 60 THEN "fast"
                ELSE IF 7 * 60 < d /\ d <= 15 * 60 THEN "medium"
                ELSE "slow"
    IN /\ r.preset = tier
       /\ planIn.autoQuality = "on" =>
            /\ ArgOf(r.p1Args, "-preset") = {tier}
            /\ ArgOf(r.p2Args, "-preset") = {tier}
       /\ \A d2 \in PlanDurations :
            d2 >= d =>
              Speed(AutoSettings([planIn EXCEPT !.durationSec = d2]).preset)
                >= Speed(r.preset)
       /\ \A w \in Widths, h \in Heights :
            AutoSettings([planIn EXCEPT !.width = w, !.height = h]).preset = r.preset

\* A video of exactly 30 minutes planned with autoQuality on gets fast.
ThirtyMinutesPlannedFast ==
  \E r \in planOut :
    /\ planIn.durationSec = 30 * 60 /\ planIn.autoQuality = "on"
    /\ ArgOf(r.p1Args, "-preset") = {"fast"}

(* C14: a progress query for an id that has no record answers missing and  *)
(* leaves the registry as it was: no record is created, so a progress or   *)
(* download query for the same id right after finds no record either.      *)
MissingQueryLeavesRegistry ==
  [][\A j \in JobIds :
       (Progress(j) /\ ~Has(jobs, j)) =>
         /\ \E out \in ev'.out : out.code = 404 /\ out.status = {Missing}
         /\ jobs' = jobs
         /\ ~Has(jobs', j)
         /\ ProgressResponse(jobs', j).status = {Missing}
         /\ DownloadResponse(jobs', j).code = 404]_vars

\* An id that never had a record was queried while another job is encoding.
UnknownIdQueried ==
  \E j, k \in JobIds :
    /\ ev.op = "progress" /\ ev.id = j
    /\ statusLog[j] = <<>> /\ ~Has(jobs, j)
    /\ \E out \in ev.out : out.status = {Missing}
    /\ pc[k] = "pass1"

Count(log, x) == Cardinality({i \in 1..Len(log) : log[i] = x})

\* outputBytes goes with done, error goes with error, and with nothing else.
ExclusiveOutcome(reg) ==
  \A j \in JobIds :
    Has(reg, j) =>
      LET r == Rec(reg, j) IN
      /\ ~(r.outputBytes # {} /\ r.error # {})
      /\ r.outputBytes # {} <=> r.status = {"done"}
      /\ r.error # {} <=> r.status = {"error"}
      /\ r.status \subseteq {"queued", "running"} => (r.outputBytes = {} /\ r.error = {})

(* C15: no record has both outputBytes and error; outputBytes is written   *)
(* once, by the write that sets done, and error is written once, by the    *)
(* write that sets error; neither is set while the job is queued or        *)
(* running.                                                                *)
OutcomeFieldsExclusive ==
  [][/\ ExclusiveOutcome(jobs')
     /\ \A j \in JobIds :
          /\ Count(statusLog'[j], "done") <= 1 /\ Count(statusLog'[j], "error") <= 1
          /\ (Has(jobs, j) /\ Has(jobs', j)) =>
               LET r == Rec(jobs, j)
                   q == Rec(jobs', j)
               IN /\ r.outputBytes # {} => (q.outputBytes = r.outputBytes /\ q.error = {})
                  /\ r.error # {} => (q.error = r.error /\ q.outputBytes = {})
                  /\ q.outputBytes # r.outputBytes =>
                       (r.status = {"running"} /\ q.status = {"done"})
                  /\ q.error # r.error =>
                       (r.status = {"running"} /\ q.status = {"error"})]_vars

\* One job ended done with its size recorded, the other ended in error
\* after its output file had been written.
BothOutcomesRecorded ==
  \E j, k \in JobIds :
    /\ Has(jobs, j) /\ Rec(jobs, j).outputBytes # {} /\ Rec(jobs, j).error = {}
    /\ Has(jobs, k) /\ Rec(jobs, k).error = {RunRejected("ffmpeg")}
    /\ Rec(jobs, k).outputBytes = {} /\ Len(exits[k]) = 4

\* The handler of j returns in this step.
Concludes(j) == InFlight(j) /\ pc'[j] = "finished"

(* C16: when the orchestration of a job has concluded, by success or by    *)
(* any failure, the unlink of its input file has been attempted and the    *)
(* file is gone; an unlink that throws changes neither the status nor      *)
(* error nor outputBytes, at that moment or later; the input file is not   *)
(* deleted while the prober or either pass is running.                     *)
InputRemovedAtConclusion ==
  [][\A j \in JobIds :
       /\ pc'[j] = "finished" => ~inputFile'[j]
       /\ InFlight(j) => inputFile[j]
       /\ (inputFile[j] /\ ~inputFile'[j]) => Concludes(j)
       /\ Concludes(j) =>
            /\ ev'.op = "unlink" /\ ev'.id = j
            /\ LET q == Rec(jobs', j)
                   ok == /\ Len(exits'[j]) = 4 /\ exits'[j][4] = 0
                         /\ outputFile'[j].st = "complete"
               IN /\ q.status = (IF ok THEN {"done"} ELSE {"error"})
                  /\ q.outputBytes = (IF ok THEN {outputFile'[j].size} ELSE {})
                  /\ q.error = (IF ok THEN {} ELSE {ErrorText(Get(thrown'[j]))})
                  /\ q.error # {UnlinkFailed}
       /\ (pc[j] = "finished" /\ Has(jobs, j) /\ Has(jobs', j)) =>
            /\ Rec(jobs', j).status = Rec(jobs, j).status
            /\ Rec(jobs', j).error = Rec(jobs, j).error
            /\ Rec(jobs', j).outputBytes = Rec(jobs, j).outputBytes]_vars

\* The unlink of the input file threw at the end of a successful encode and
\* at the end of a failed one.
InputUnlinkThrew ==
  \E j, k \in JobIds :
    /\ ev.op = "unlink" /\ ev.id = j /\ \E o \in ev.out : o.threw
    /\ StatusOf(jobs, j) = "done" /\ Rec(jobs, j).outputBytes # {}
    /\ StatusOf(jobs, k) = "error" /\ pc[k] = "finished"

(* C17 (as claimed): a progress query on a done job answers status done,   *)
(* percent 100 and outputMB = outputBytes / 2^20, whatever the size of the *)
(* output, 0 bytes included; for a job that is not done outputMB is absent.*)
DoneReportsOutputMB ==
  \A j \in JobIds :
    (ev.op = "progress" /\ ev.id = j /\ Has(jobs, j)) =>
      \A out \in ev.out :
        IF StatusOf(jobs, j) = "done"
        THEN /\ out.status = {"done"} /\ out.percent = {Num(100)}
             /\ out.outputMB = {Rat(outputFile[j].size, BytesPerMB)}
        ELSE out.outputMB = {}

(* C18 (as claimed): from the start of pass 1 until pass 2 begins the      *)
(* percent of the record stays within [0,50], and from the beginning of    *)
(* pass 2 until the job is done it stays within [50,100].                  *)
PercentWithinPhaseRange ==
  \A j \in JobIds :
    /\ (pc[j] = "pass1" /\ Has(jobs, j)) =>
         (RLeq(Num(0), PercentOf(jobs, j)) /\ RLeq(PercentOf(jobs, j), Num(50)))
    /\ (pc[j] = "pass2" /\ Has(jobs, j)) =>
         (RLeq(Num(50), PercentOf(jobs, j)) /\ RLeq(PercentOf(jobs, j), Num(100)))

\* Every process started for j exits: whenever one is running, a moment
\* comes at which all that were started have exited.
ProcessesExit(j) ==
  (Len(exits[j]) < Len(spawned[j])) ~> (Len(exits[j]) = Len(spawned[j]))

Pending(j) == Has(jobs, j) /\ StatusOf(jobs, j) \in {"queued", "running"}
Concluded(j) == Has(jobs, j) /\ Terminal(StatusOf(jobs, j))

(* C19: if every external process started for a job exits, with whatever   *)
(* exit code, then the job, once created, reaches done or error: it does   *)
(* not stay queued or running forever, also when another job runs at the   *)
(* same time.                                                              *)
JobsReachTerminal ==
  \A j \in JobIds : ProcessesExit(j) => (Pending(j) ~> Concluded(j))

\* Two jobs that ran side by side have both ended, one after all four
\* processes, the other at its first one.
ConcurrentJobsEnded ==
  \E j, k \in JobIds :
    /\ Concluded(j) /\ Len(exits[j]) = 4
    /\ Concluded(k) /\ exits[k] = <<1>>
    /\ termAt[j] = termAt[k]

(* C20 (as claimed): with the reaper firing every 5 minutes, the record    *)
(* and the output file of a job are removed no later than 35 minutes after *)
(* the job became done or error. `termAt` is the clock reading of the last *)
(* tick before that moment, so the job became terminal before the tick     *)
(* that follows it, and the time from then to the removal is more than     *)
(* r.at - (termAt + one interval).                                         *)
RemovedWithin35Minutes ==
  \A j \in JobIds :
    \A r \in reaped[j] :
      r.at - (Get(termAt[j]) + ReaperIntervalMs) < RetentionMs + ReaperIntervalMs

====
